---------------------------- MODULE Spec2Model ----------------------------
(***************************************************************************)
(* Model of reddit_to_sheets.py: the ingestion run (main) over a           *)
(* spreadsheet store, with its helpers.                                    *)
(*                                                                         *)
(* Strings the code transforms (identifiers, titles, topic names) are      *)
(* sequences of one-character strings, so strip() and safe_sheet_title()   *)
(* are computed, not assumed.  Compound scores are integers in units of    *)
(* 1e-4 (the analyzer rounds to four decimals): 0.05 is 500.  A mean is an *)
(* exact fraction <<numerator, denominator>> in lowest terms.              *)
(* utc_now_iso() is read at the granularity of a run: it is the run        *)
(* number.  The pass-through columns created_utc, score_upvotes,           *)
(* num_comments and permalink are not carried.                             *)
(*                                                                         *)
(* Line 88 of the source, the first statement of ensure_worksheet, has     *)
(* lost its indentation; it is read as the first statement of the body.    *)
(***************************************************************************)
EXTENDS Integers, Sequences, FiniteSets, TLC

\* ---------------------------------------------------------------- bounds
\* Number of runs of the script against the same spreadsheet.
MaxRuns == 2
\* Longest response of a feed (posts per fetch).
MaxPosts == 2
\* Fetch failures and store write failures injected over a behaviour.
MaxFetchFail == 2
MaxWriteFail == 1

\* ------------------------------------------------------ program constants
\* append_rows(chunk_size=200), scaled to 2 rows per call.
chunk_size == 2
\* get_existing_post_ids(max_rows=2000), scaled to 3 sheet rows.
max_rows == 3
\* safe_sheet_title: title[:100].
TitleLimit == 100
\* sentiment_label thresholds 0.05 and -0.05, in units of 1e-4.
PosThreshold == 500
NegThreshold == -500
\* Range of a compound score, [-1, 1], in units of 1e-4.
CompoundMax == 10000

\* ------------------------------------------------------------ strings
Whitespace == {" "}
BadChars == {":", "\\", "/", "?", "*", "[", "]"}

Min(a, b) == IF a < b THEN a ELSE b

RECURSIVE LStrip(_)
LStrip(s) ==
    IF s # <<>> /\ Head(s) \in Whitespace THEN LStrip(Tail(s)) ELSE s

RECURSIVE RStrip(_)
RStrip(s) ==
    IF s # <<>> /\ s[Len(s)] \in Whitespace
    THEN RStrip(SubSeq(s, 1, Len(s) - 1)) ELSE s

\* str.strip()
Strip(s) == RStrip(LStrip(s))

\* " ".join(title.split()): runs of whitespace become one space, none at
\* either end.
RECURSIVE JoinSplit(_)
JoinSplit(s) ==
    LET t == LStrip(s) IN
    IF t = <<>> THEN <<>>
    ELSE LET rest == Tail(t) IN
         IF rest # <<>> /\ Head(rest) \in Whitespace
         THEN IF LStrip(rest) = <<>> THEN <<Head(t)>>
              ELSE <<Head(t), " ">> \o JoinSplit(rest)
         ELSE <<Head(t)>> \o JoinSplit(rest)

safe_sheet_title(title) ==
    LET replaced == [i \in 1..Len(title) |->
                        IF title[i] \in BadChars THEN " " ELSE title[i]]
        t == Strip(JoinSplit(replaced))
    IN IF t # <<>> THEN SubSeq(t, 1, Min(TitleLimit, Len(t)))
       ELSE <<"T", "o", "p", "i", "c">>

\* ------------------------------------------------------------ scoring
sentiment_label_strict(score) ==
    IF score > PosThreshold THEN "positive"
    ELSE IF score < NegThreshold THEN "negative"
    ELSE "neutral"

sentiment_label(score) ==
    IF score >= PosThreshold THEN "positive"
    ELSE IF score <= NegThreshold THEN "negative"
    ELSE "neutral"

\* analyzer.polarity_scores(title)["compound"]: a deterministic function of
\* the title, here a three-word lexicon.
Polarity(title) ==
    CASE title = <<"g">> -> 500
      [] title = <<"b">> -> -500
      [] title = <<"m">> -> 499
      [] OTHER -> 0

RECURSIVE SumSeq(_)
SumSeq(s) == IF s = <<>> THEN 0 ELSE Head(s) + SumSeq(Tail(s))

Abs(x) == IF x < 0 THEN -x ELSE x

RECURSIVE Gcd(_, _)
Gcd(a, b) == IF b = 0 THEN a ELSE Gcd(b, a % b)

\* num / den as a fraction in lowest terms, den > 0.
Frac(num, den) ==
    LET g == Gcd(Abs(num), den) IN <<num \div g, den \div g>>


\* Python float division sum / len, as an exact fraction; 0.0 when empty.
sub_avg_floor(sub_scores) ==
    IF sub_scores # <<>>
    THEN Frac(SumSeq(sub_scores) \div Len(sub_scores), 1)
    ELSE Frac(0, 1)

sub_avg(sub_scores) ==
    IF sub_scores # <<>>
    THEN Frac(SumSeq(sub_scores), Len(sub_scores))
    ELSE Frac(0, 1)

\* ------------------------------------------------------ configuration
\* topics.yml: an ordered list of topics, each a name and an ordered list
\* of subreddits.  The second topic lists no subreddit.
TopicAB == <<"A", "/", "B">>
TopicNil == <<"N">>
TopicC == <<"C">>

Topics ==
    << [name |-> TopicAB, subreddits |-> <<"f1", "f2">>],
       [name |-> TopicNil, subreddits |-> <<>>],
       [name |-> TopicC, subreddits |-> <<"f1">>] >>

Subreddits == {"f1", "f2"}

\* The posts a feed can return: p.get("id", "") and p.get("title").
Items ==
    { [id |-> <<>>, title |-> <<"g">>],
      [id |-> <<"a">>, title |-> <<" ">>],
      [id |-> <<"a">>, title |-> <<"g">>],
      [id |-> <<"b">>, title |-> <<" ", "b">>],
      [id |-> <<" ", "a">>, title |-> <<"m">>] }

\* What fetch_subreddit_posts returns when it does not raise: the posts of
\* the response in order, stickied posts already left out.
Responses == UNION { [1..n -> Items] : n \in 0..MaxPosts }

\* --------------------------------------------------------- the store
\* A worksheet is the sequence of its rows (get_all_values); a row is a
\* record tagged by kind: "header", "data", "rollup", "smoke", "blank".
TopicHeaders ==
    <<"post_id", "run_time_utc", "topic", "subreddit", "title",
      "sentiment_compound", "sentiment_label">>
RollupHeaders ==
    <<"run_time_utc", "topic", "subreddit", "new_posts_added",
      "avg_compound_sentiment">>
SmokeHeaders == <<"status", "time_utc">>

RollupTitle == <<"R", "o", "l", "l", "u", "p">>
SmokeTitle == <<"S", "M", "O", "K", "E", "_", "T", "E", "S", "T">>

HeaderRow(headers) == [kind |-> "header", cols |-> headers]

\* Column A of a row as text: the post id of a data row, empty for a blank
\* row, some non-blank text for any other row.
Col1(row) ==
    CASE row.kind = "data" -> row.post_id
      [] row.kind = "blank" -> <<>>
      [] OTHER -> <<"#">>

\* Mutant: the headers are written into row 1 without looking at it.
ensure_worksheet_always_writes(sh, title, headers) ==
    LET t == safe_sheet_title(title)
        values == IF t \in DOMAIN sh THEN sh[t] ELSE <<>>
        updated ==
            IF values = <<>> THEN <<HeaderRow(headers)>>
            ELSE [values EXCEPT ![1] = HeaderRow(headers)]
    IN [s \in DOMAIN sh \cup {t} |-> IF s = t THEN updated ELSE sh[s]]

\* ensure_worksheet: the spreadsheet after the call.  The worksheet is
\* created when missing; the headers go into row 1 when row 1 is empty or
\* all blank.
ensure_worksheet(sh, title, headers) ==
    LET t == safe_sheet_title(title)
        values == IF t \in DOMAIN sh THEN sh[t] ELSE <<>>
        first_row_blank == values = <<>> \/ values[1].kind = "blank"
        updated ==
            IF first_row_blank
            THEN IF values = <<>> THEN <<HeaderRow(headers)>>
                 ELSE [values EXCEPT ![1] = HeaderRow(headers)]
            ELSE values
    IN [s \in DOMAIN sh \cup {t} |-> IF s = t THEN updated ELSE sh[s]]

\* get_existing_post_ids: values[1:max_rows], stripped, blanks left out.
get_existing_post_ids(values) ==
    IF Len(values) <= 1 THEN {}
    ELSE { Strip(Col1(values[i])) :
             i \in { j \in 2..Min(max_rows, Len(values)) :
                       Strip(Col1(values[j])) # <<>> } }

\* rows[i:i + chunk_size], i counted from 0.
ChunkAt(rows, i) == SubSeq(rows, i + 1, Min(i + chunk_size, Len(rows)))

\* Mutant: range(0, len(rows) - chunk_size + 1, chunk_size), which leaves
\* out a last, shorter batch.
ChunkStarts_full_only(rows) ==
    { i \in 0..(Len(rows) - 1) :
        i % chunk_size = 0 /\ i + chunk_size <= Len(rows) }

\* range(0, len(rows), chunk_size)
ChunkStarts(rows) == { i \in 0..(Len(rows) - 1) : i % chunk_size = 0 }


\* ------------------------------------------------------- the variables
VARIABLES
    store,           \* sh: worksheet title -> rows
    feed,            \* the posts each subreddit returns when its fetch succeeds
    runNo,           \* runs started so far; the run time of the current one
    pc,              \* where main() is
    err,             \* what ended a crashed run
    ti,              \* index of the topic in progress
    si,              \* index of the subreddit in progress
    ws,              \* title of the topic's worksheet
    existing_ids,
    topic_new_rows,
    rollup_rows,
    log,             \* the run's requests, in order: fetch, sleep, append
    failed,          \* <<ti, si>> of the fetches that failed in this run
    prev,            \* outcome and failed fetches of the previous run
    fetchFails,      \* failures injected so far
    writeFails,
    setup            \* what the run read at its start: the two required
                     \* variables, topics.yml and the outcome of the connection

vars ==
    <<store, feed, runNo, pc, err, ti, si, ws, existing_ids, topic_new_rows,
      rollup_rows, log, failed, prev, fetchFails, writeFails, setup>>

\* ------------------------------------------------------ the row builder
\* The two skip tests of the post loop: "not post_id or post_id in
\* existing_ids", then "not title" on the stripped title.
Accepts_no_title_test(p, ids) == p.id # <<>> /\ p.id \notin ids

Accepts(p, ids) ==
    /\ p.id # <<>>
    /\ p.id \notin ids
    /\ Strip(p.title) # <<>>

BuildRow(p, topic_name, sub, now, compound) ==
    [kind |-> "data", post_id |-> p.id, run |-> now, topic |-> topic_name,
     subreddit |-> sub, title |-> Strip(p.title), compound |-> compound,
     label |-> sentiment_label(compound)]

\* existing_ids.add(post_id)
LedgerAdd_forgets(ids, post_id) == ids

LedgerAdd(ids, post_id) == ids \cup {post_id}

\* The post loop of one subreddit, from the state acc = [ids, rows, added,
\* scores] (existing_ids, topic_new_rows, new_added, sub_scores).
RECURSIVE ProcessPosts(_, _, _, _, _)
ProcessPosts(posts, acc, topic_name, sub, now) ==
    IF posts = <<>> THEN acc
    ELSE LET p == Head(posts)
             compound == Polarity(Strip(p.title))
             next ==
                 IF Accepts(p, acc.ids)
                 THEN [ids |-> LedgerAdd(acc.ids, p.id),
                       rows |-> Append(acc.rows,
                                  BuildRow(p, topic_name, sub, now, compound)),
                       added |-> acc.added + 1,
                       scores |-> Append(acc.scores, compound)]
                 ELSE acc
         IN ProcessPosts(Tail(posts), next, topic_name, sub, now)

RollupRow(now, topic_name, sub, new_added, avg) ==
    [kind |-> "rollup", run |-> now, topic |-> topic_name, subreddit |-> sub,
     new_posts_added |-> new_added, avg_compound_sentiment |-> avg]

\* ----------------------------------------------------------- requests
FetchEvent(topic_name, sub, ok) ==
    [op |-> "fetch", topic |-> topic_name, sub |-> sub, ok |-> ok]
SleepEvent == [op |-> "sleep"]
AppendEvent(title, rows, ok) ==
    [op |-> "append", ws |-> title, rows |-> rows, ok |-> ok]

\* append_rows(ws, rows) when its first k calls succeed: the worksheet
\* after them and the calls made.
RECURSIVE AppendCalls(_, _, _, _)
AppendCalls(title, rows, i, k) ==
    IF k = 0 \/ i >= Len(rows) THEN <<>>
    ELSE <<AppendEvent(title, ChunkAt(rows, i), TRUE)>>
         \o AppendCalls(title, rows, i + chunk_size, k - 1)

RECURSIVE AppendedRows(_)
AppendedRows(calls) ==
    IF calls = <<>> THEN <<>>
    ELSE (IF Head(calls).ok THEN Head(calls).rows ELSE <<>>)
         \o AppendedRows(Tail(calls))

NumChunks(rows) == Cardinality(ChunkStarts(rows))


\* -------------------------------------------------------------- setup
\* An environment variable: unset, or set to a text.
EnvValues ==
    { [set |-> FALSE, val |-> <<>>],
      [set |-> TRUE, val |-> <<>>],
      [set |-> TRUE, val |-> <<" ">>],
      [set |-> TRUE, val |-> <<"x">>] }

\* Mutant: only "val is None" is tested.
EnvMissing_unset_only(v) == ~v.set

\* env(name) with required=True raises on None or blank.
EnvMissing(v) == ~v.set \/ Strip(v.val) = <<>>

TopicsFiles == {"missing", "no_topics", "ok"}

\* The error main() raises before it touches the store; "" when none.
SetupError(sheet_id, service_json, topics_file, connect_ok) ==
    IF EnvMissing(sheet_id) THEN "env GOOGLE_SHEET_ID"
    ELSE IF EnvMissing(service_json) THEN "env GOOGLE_SERVICE_ACCOUNT_JSON"
    ELSE IF topics_file = "missing" THEN "topics.yml not found"
    ELSE IF topics_file = "no_topics" THEN "no topics"
    ELSE IF ~connect_ok THEN "connect"
    ELSE ""

\* What a run can find at its start.
SetupInputs ==
    [sheet_id : EnvValues, service_json : EnvValues,
     topics_file : TopicsFiles, connect_ok : BOOLEAN]

SetupErrorOf(in) ==
    SetupError(in.sheet_id, in.service_json, in.topics_file, in.connect_ok)

\* The setup that passes every test, and the setups a run of the main
\* specification meets: that one and those with one thing wrong.
GoodSetup ==
    [sheet_id |-> [set |-> TRUE, val |-> <<"x">>],
     service_json |-> [set |-> TRUE, val |-> <<"x">>],
     topics_file |-> "ok", connect_ok |-> TRUE]

SetupCases ==
    { [GoodSetup EXCEPT !.sheet_id = v] : v \in EnvValues }
    \cup { [GoodSetup EXCEPT !.service_json = v] : v \in EnvValues }
    \cup { [GoodSetup EXCEPT !.topics_file = t] : t \in TopicsFiles }
    \cup { [GoodSetup EXCEPT !.connect_ok = c] : c \in BOOLEAN }

\* Before the first run nothing is read yet.
NoSetup ==
    [sheet_id |-> [set |-> FALSE, val |-> <<>>],
     service_json |-> [set |-> FALSE, val |-> <<>>],
     topics_file |-> "missing", connect_ok |-> FALSE]

SmokeRow(now) == [kind |-> "smoke", run |-> now]

AppendTo(sh, title, rows) == [sh EXCEPT ![title] = @ \o rows]

Init ==
    /\ store = <<>>
    /\ feed \in [Subreddits -> Responses]
    /\ runNo = 0
    /\ pc = "idle"
    /\ err = ""
    /\ ti = 1
    /\ si = 1
    /\ ws = <<>>
    /\ existing_ids = {}
    /\ topic_new_rows = <<>>
    /\ rollup_rows = <<>>
    /\ log = <<>>
    /\ failed = {}
    /\ prev = [outcome |-> "none", failed |-> {}]
    /\ fetchFails = 0
    /\ writeFails = 0
    /\ setup = NoSetup

\* The script is started: the state of a fresh process.
Fresh ==
    /\ pc \in {"idle", "done", "crashed"}
    /\ runNo < MaxRuns
    /\ runNo' = runNo + 1
    /\ prev' = [outcome |-> pc, failed |-> failed]
    /\ failed' = {}
    /\ log' = <<>>
    /\ ti' = 1
    /\ si' = 1
    /\ ws' = <<>>
    /\ existing_ids' = {}
    /\ topic_new_rows' = <<>>
    /\ rollup_rows' = <<>>
    /\ UNCHANGED <<feed, fetchFails>>

\* main(), lines 128-152: a required variable is missing, topics.yml is
\* absent or lists no topic, or the connection fails.
SetupFailWith(in) ==
    /\ Fresh
    /\ SetupErrorOf(in) # ""
    /\ setup' = in
    /\ err' = SetupErrorOf(in)
    /\ pc' = "crashed"
    /\ UNCHANGED <<store, writeFails>>

SetupFail == \E in \in SetupCases : SetupFailWith(in)

\* main(), lines 153-160: the smoke test's append_row fails and is re-raised.
SmokeFail ==
    /\ Fresh
    /\ \E in \in SetupCases : SetupErrorOf(in) = "" /\ setup' = in
    /\ writeFails < MaxWriteFail
    /\ writeFails' = writeFails + 1
    /\ store' = ensure_worksheet(store, SmokeTitle, SmokeHeaders)
    /\ err' = "smoke test"
    /\ pc' = "crashed"

\* main(), lines 128-172: setup succeeds, the smoke row is written and the
\* rollup worksheet is ensured.
StartRun ==
    /\ Fresh
    /\ \E in \in SetupCases : SetupErrorOf(in) = "" /\ setup' = in
    /\ store' = ensure_worksheet(
                    AppendTo(ensure_worksheet(store, SmokeTitle, SmokeHeaders),
                             SmokeTitle, <<SmokeRow(runNo + 1)>>),
                    RollupTitle, RollupHeaders)
    /\ err' = ""
    /\ pc' = "topic"
    /\ UNCHANGED writeFails

\* ---------------------------------------------------------- the topics
\* A store request other than append_rows (worksheet lookup, header write,
\* get_all_values) is taken to succeed.
Topic == Topics[ti]
Subs == Topic.subreddits

\* "if not subs: continue"
SkipTopic ==
    /\ pc = "topic"
    /\ ti <= Len(Topics)
    /\ Subs = <<>>
    /\ ti' = ti + 1
    /\ UNCHANGED <<store, feed, runNo, pc, err, si, ws, existing_ids,
                   topic_new_rows, rollup_rows, log, failed, prev, setup,
                   fetchFails, writeFails>>

\* Mutant: the ledger is created once, before the topic loop, and each
\* topic adds its section's identifiers to it.
BeginTopic_keeps_ledger ==
    /\ pc = "topic"
    /\ ti <= Len(Topics)
    /\ Subs # <<>>
    /\ store' = ensure_worksheet(store, Topic.name, TopicHeaders)
    /\ ws' = safe_sheet_title(Topic.name)
    /\ existing_ids' = existing_ids \cup get_existing_post_ids(store'[ws'])
    /\ topic_new_rows' = <<>>
    /\ si' = 1
    /\ pc' = "feed"
    /\ UNCHANGED <<feed, runNo, err, ti, rollup_rows, log, failed, prev, setup,
                   fetchFails, writeFails>>

\* Lines 181-199: the topic's worksheet is ensured and the ledger loaded.
BeginTopic ==
    /\ pc = "topic"
    /\ ti <= Len(Topics)
    /\ Subs # <<>>
    /\ store' = ensure_worksheet(store, Topic.name, TopicHeaders)
    /\ ws' = safe_sheet_title(Topic.name)
    /\ existing_ids' = get_existing_post_ids(store'[ws'])
    /\ topic_new_rows' = <<>>
    /\ si' = 1
    /\ pc' = "feed"
    /\ UNCHANGED <<feed, runNo, err, ti, rollup_rows, log, failed, prev, setup,
                   fetchFails, writeFails>>

\* Mutant: the failed fetch leaves the subreddit loop ("break").
FetchFail_breaks ==
    /\ pc = "feed"
    /\ si <= Len(Subs)
    /\ fetchFails < MaxFetchFail
    /\ fetchFails' = fetchFails + 1
    /\ log' = Append(log, FetchEvent(Topic.name, Subs[si], FALSE))
    /\ failed' = failed \cup {<<ti, si>>}
    /\ si' = Len(Subs) + 1
    /\ UNCHANGED <<store, feed, runNo, pc, err, ti, ws, existing_ids,
                   topic_new_rows, rollup_rows, prev, setup, writeFails>>

\* Lines 203-207: fetch_subreddit_posts raises; "continue".
FetchFail ==
    /\ pc = "feed"
    /\ si <= Len(Subs)
    /\ fetchFails < MaxFetchFail
    /\ fetchFails' = fetchFails + 1
    /\ log' = Append(log, FetchEvent(Topic.name, Subs[si], FALSE))
    /\ failed' = failed \cup {<<ti, si>>}
    /\ si' = si + 1
    /\ UNCHANGED <<store, feed, runNo, pc, err, ti, ws, existing_ids,
                   topic_new_rows, rollup_rows, prev, setup, writeFails>>

\* Mutant: the rollup row is appended only when a row was accepted.
ProcessFeed_no_empty_rollup ==
    /\ pc = "feed"
    /\ si <= Len(Subs)
    /\ LET sub == Subs[si]
           acc == ProcessPosts(feed[sub],
                               [ids |-> existing_ids, rows |-> topic_new_rows,
                                added |-> 0, scores |-> <<>>],
                               Topic.name, sub, runNo)
       IN /\ existing_ids' = acc.ids
          /\ topic_new_rows' = acc.rows
          /\ rollup_rows' =
                IF acc.added = 0 THEN rollup_rows
                ELSE Append(rollup_rows,
                            RollupRow(runNo, Topic.name, sub, acc.added,
                                      sub_avg(acc.scores)))
          /\ log' = log \o <<FetchEvent(Topic.name, sub, TRUE), SleepEvent>>
    /\ si' = si + 1
    /\ UNCHANGED <<store, feed, runNo, pc, err, ti, ws, failed, prev, setup,
                   fetchFails, writeFails>>

\* Mutant: new_added counts every post of the response, before the skip
\* tests.
ProcessFeed_counts_posts ==
    /\ pc = "feed"
    /\ si <= Len(Subs)
    /\ LET sub == Subs[si]
           acc == ProcessPosts(feed[sub],
                               [ids |-> existing_ids, rows |-> topic_new_rows,
                                added |-> 0, scores |-> <<>>],
                               Topic.name, sub, runNo)
       IN /\ existing_ids' = acc.ids
          /\ topic_new_rows' = acc.rows
          /\ rollup_rows' = Append(rollup_rows,
                               RollupRow(runNo, Topic.name, sub, Len(feed[sub]),
                                         sub_avg(acc.scores)))
          /\ log' = log \o <<FetchEvent(Topic.name, sub, TRUE), SleepEvent>>
    /\ si' = si + 1
    /\ UNCHANGED <<store, feed, runNo, pc, err, ti, ws, failed, prev, setup,
                   fetchFails, writeFails>>

\* Lines 203-257: the fetch succeeds; the post loop, the rollup row and
\* the sleep.
ProcessFeed ==
    /\ pc = "feed"
    /\ si <= Len(Subs)
    /\ LET sub == Subs[si]
           acc == ProcessPosts(feed[sub],
                               [ids |-> existing_ids, rows |-> topic_new_rows,
                                added |-> 0, scores |-> <<>>],
                               Topic.name, sub, runNo)
       IN /\ existing_ids' = acc.ids
          /\ topic_new_rows' = acc.rows
          /\ rollup_rows' = Append(rollup_rows,
                               RollupRow(runNo, Topic.name, sub, acc.added,
                                         sub_avg(acc.scores)))
          /\ log' = log \o <<FetchEvent(Topic.name, sub, TRUE), SleepEvent>>
    /\ si' = si + 1
    /\ UNCHANGED <<store, feed, runNo, pc, err, ti, ws, failed, prev, setup,
                   fetchFails, writeFails>>

\* Mutant: the rollup write sits inside the topic loop, so every topic's
\* commit also appends the rollup rows created so far.
CommitTopic_writes_rollup ==
    /\ pc = "feed"
    /\ si > Len(Subs)
    /\ LET calls == AppendCalls(ws, topic_new_rows, 0, NumChunks(topic_new_rows))
           rcalls == AppendCalls(RollupTitle, rollup_rows, 0,
                                 NumChunks(rollup_rows))
       IN /\ store' = AppendTo(AppendTo(store, ws, AppendedRows(calls)),
                               RollupTitle, AppendedRows(rcalls))
          /\ log' = (log \o calls) \o rcalls
    /\ ti' = ti + 1
    /\ pc' = "topic"
    /\ UNCHANGED <<feed, runNo, err, si, ws, existing_ids, topic_new_rows,
                   rollup_rows, failed, prev, setup, fetchFails, writeFails>>

\* Lines 259-263: append_rows(ws, topic_new_rows), every call succeeding;
\* no call when the topic has no new row.
CommitTopic ==
    /\ pc = "feed"
    /\ si > Len(Subs)
    /\ LET calls == AppendCalls(ws, topic_new_rows, 0, NumChunks(topic_new_rows))
       IN /\ store' = AppendTo(store, ws, AppendedRows(calls))
          /\ log' = log \o calls
    /\ ti' = ti + 1
    /\ pc' = "topic"
    /\ UNCHANGED <<feed, runNo, err, si, ws, existing_ids, topic_new_rows,
                   rollup_rows, failed, prev, setup, fetchFails, writeFails>>

\* Mutant: the failed call is caught and the run goes on to the next topic.
CommitTopicFail_swallowed ==
    /\ pc = "feed"
    /\ si > Len(Subs)
    /\ writeFails < MaxWriteFail
    /\ \E k \in 0..(NumChunks(topic_new_rows) - 1) :
          LET calls == AppendCalls(ws, topic_new_rows, 0, k)
              lost == ChunkAt(topic_new_rows, k * chunk_size)
          IN /\ store' = AppendTo(store, ws, AppendedRows(calls))
             /\ log' = (log \o calls) \o <<AppendEvent(ws, lost, FALSE)>>
    /\ writeFails' = writeFails + 1
    /\ ti' = ti + 1
    /\ pc' = "topic"
    /\ UNCHANGED <<feed, runNo, err, si, ws, existing_ids, topic_new_rows,
                   rollup_rows, failed, prev, setup, fetchFails>>

\* append_rows(ws, topic_new_rows): the first k calls succeed and the
\* next one raises.
CommitTopicFail ==
    /\ pc = "feed"
    /\ si > Len(Subs)
    /\ writeFails < MaxWriteFail
    /\ \E k \in 0..(NumChunks(topic_new_rows) - 1) :
          LET calls == AppendCalls(ws, topic_new_rows, 0, k)
              lost == ChunkAt(topic_new_rows, k * chunk_size)
          IN /\ store' = AppendTo(store, ws, AppendedRows(calls))
             /\ log' = (log \o calls) \o <<AppendEvent(ws, lost, FALSE)>>
    /\ writeFails' = writeFails + 1
    /\ err' = "append_rows"
    /\ pc' = "crashed"
    /\ UNCHANGED <<feed, runNo, ti, si, ws, existing_ids, topic_new_rows,
                   rollup_rows, failed, prev, setup, fetchFails>>

\* Lines 265-269: the rollup rows are appended and the run ends.
WriteRollup ==
    /\ pc = "topic"
    /\ ti > Len(Topics)
    /\ LET calls == AppendCalls(RollupTitle, rollup_rows, 0,
                                NumChunks(rollup_rows))
       IN /\ store' = AppendTo(store, RollupTitle, AppendedRows(calls))
          /\ log' = log \o calls
    /\ pc' = "done"
    /\ UNCHANGED <<feed, runNo, err, ti, si, ws, existing_ids,
                   topic_new_rows, rollup_rows, failed, prev, setup, fetchFails,
                   writeFails>>

WriteRollupFail ==
    /\ pc = "topic"
    /\ ti > Len(Topics)
    /\ writeFails < MaxWriteFail
    /\ \E k \in 0..(NumChunks(rollup_rows) - 1) :
          LET calls == AppendCalls(RollupTitle, rollup_rows, 0, k)
              lost == ChunkAt(rollup_rows, k * chunk_size)
          IN /\ store' = AppendTo(store, RollupTitle, AppendedRows(calls))
             /\ log' = (log \o calls) \o <<AppendEvent(RollupTitle, lost, FALSE)>>
    /\ writeFails' = writeFails + 1
    /\ err' = "append_rows"
    /\ pc' = "crashed"
    /\ UNCHANGED <<feed, runNo, ti, si, ws, existing_ids, topic_new_rows,
                   rollup_rows, failed, prev, setup, fetchFails>>

Next ==
    \/ SetupFail
    \/ SmokeFail
    \/ StartRun
    \/ SkipTopic
    \/ BeginTopic
    \/ FetchFail
    \/ ProcessFeed
    \/ CommitTopic
    \/ CommitTopicFail
    \/ WriteRollup
    \/ WriteRollupFail

Spec == Init /\ [][Next]_vars


\* ================================================================ claims
\* Helpers of the statements below.
IsPrefix(s, t) == Len(s) <= Len(t) /\ SubSeq(t, 1, Len(s)) = s

\* The worksheets of the topics that list a subreddit.
TopicSections ==
    { safe_sheet_title(Topics[t].name) :
        t \in { u \in 1..Len(Topics) : Topics[u].subreddits # <<>> } }

Sheet(title) == IF title \in DOMAIN store THEN store[title] ELSE <<>>

\* The data rows the current run has appended to a worksheet.
RunDataRows(title) ==
    LET ThisRun(r) == r.kind = "data" /\ r.run = runNo
    IN SelectSeq(Sheet(title), ThisRun)

\* The rollup rows the current run has appended to the rollup worksheet.
RunRollupRows ==
    LET ThisRun(r) == r.kind = "rollup" /\ r.run = runNo
    IN SelectSeq(Sheet(RollupTitle), ThisRun)

\* The declared (topic, subreddit) places, as <<ti, si>>.
Slots ==
    UNION { { <<t, s>> : s \in 1..Len(Topics[t].subreddits) } :
              t \in 1..Len(Topics) }

\* C1: a run that completes after a completed run, with every fetch
\* answering as it did in that run (the posts of a subreddit never change
\* here, so: the same fetches failing), appends no data row to any topic
\* worksheet.
C1_SecondRunAppendsNothing ==
    (pc = "done" /\ prev.outcome = "done" /\ failed = prev.failed)
        => \A title \in TopicSections : RunDataRows(title) = <<>>

\* C9: in a run, no two fetch requests are issued without a sleep between
\* them.
C9_SleepBetweenFetches ==
    \A i, j \in 1..Len(log) :
        (i < j /\ log[i].op = "fetch" /\ log[j].op = "fetch")
            => \E k \in (i + 1)..(j - 1) : log[k].op = "sleep"


IsSuffix(s, t) ==
    Len(s) <= Len(t) /\ SubSeq(t, Len(t) - Len(s) + 1, Len(t)) = s

\* The (topic, subreddit) pairs of topics.yml in declared order.
RECURSIVE DeclaredFrom(_)
DeclaredFrom(t) ==
    IF t > Len(Topics) THEN <<>>
    ELSE [s \in 1..Len(Topics[t].subreddits) |->
             <<Topics[t].name, Topics[t].subreddits[s]>>]
         \o DeclaredFrom(t + 1)

DeclaredFeeds == DeclaredFrom(1)

\* The fetches of the run so far, as (topic, subreddit) pairs.
Fetched ==
    LET IsFetch(e) == e.op = "fetch"
        f == SelectSeq(log, IsFetch)
    IN [i \in 1..Len(f) |-> <<f[i].topic, f[i].sub>>]

\* The rows the run has accepted or appended for a (topic, subreddit) pair.
RowsOfPair(rows, topic_name, sub) ==
    LET Mine(r) == /\ r.kind = "data" /\ r.run = runNo
                   /\ r.topic = topic_name /\ r.subreddit = sub
    IN SelectSeq(rows, Mine)

\* A step in which a fetch fails.
FetchFailStep == runNo' = runNo /\ failed' # failed

\* A step in which a subreddit's posts are processed.
ProcessFeedStep == runNo' = runNo /\ rollup_rows' # rollup_rows

C2_State ==
    /\ IsPrefix(Fetched, DeclaredFeeds)
    /\ pc = "done" => Fetched = DeclaredFeeds
    /\ pc = "crashed" => (log = <<>> \/ log[Len(log)].op = "append")
    /\ (pc \in {"topic", "done"} /\ ws # <<>>)
          => IsSuffix(topic_new_rows, Sheet(ws))
    /\ \A slot \in failed :
          LET name == Topics[slot[1]].name
              sub == Topics[slot[1]].subreddits[slot[2]]
          IN /\ RowsOfPair(topic_new_rows, name, sub) = <<>>
             /\ RowsOfPair(Sheet(safe_sheet_title(name)), name, sub) = <<>>

C2_Step ==
    FetchFailStep =>
        /\ pc' = "feed" /\ ti' = ti /\ si' = si + 1
        /\ existing_ids' = existing_ids
        /\ topic_new_rows' = topic_new_rows
        /\ rollup_rows' = rollup_rows
        /\ store' = store

\* C2: a failed fetch aborts neither the topic nor the run.  The fetches of
\* a run follow the declared order with none left out, and a run that ends
\* has made them all; a run that crashes after its first request crashes on
\* a store write, never on a fetch; after a topic's commit its accepted
\* rows are the tail of its worksheet; a failed feed has no row of the run;
\* and the step of a failed fetch moves to the next subreddit of the same
\* topic leaving the ledger, the accepted rows, the rollups and the store
\* as they were.
C2_FetchFailureIsolated == [](C2_State) /\ [][C2_Step]_vars

\* Witness of C2: a completed run in which the first fetch failed and the
\* later feed of that topic and the later topic each committed a row.
C2_Witness ==
    /\ pc = "done"
    /\ failed = {<<1, 1>>}
    /\ RunDataRows(safe_sheet_title(TopicAB)) # <<>>
    /\ RunDataRows(safe_sheet_title(TopicC)) # <<>>

\* The ledger get_existing_post_ids loaded when the topic began: the
\* worksheet is not written while the topic's feeds are processed.
LoadedLedger == get_existing_post_ids(Sheet(ws))

\* C3: while a topic's feeds are processed, no two accepted rows carry the
\* same identifier, no accepted row carries an identifier of the ledger as
\* loaded, and every identifier loaded or accepted is in the ledger (so a
\* later membership test on it is true).
C3_NoIdAcceptedTwice ==
    pc = "feed" =>
        /\ \A i, j \in 1..Len(topic_new_rows) :
              i # j => topic_new_rows[i].post_id # topic_new_rows[j].post_id
        /\ \A i \in 1..Len(topic_new_rows) :
              /\ topic_new_rows[i].post_id \notin LoadedLedger
              /\ topic_new_rows[i].post_id \in existing_ids
        /\ LoadedLedger \subseteq existing_ids

\* Witness of C3: in a second run the ledger loaded for the first topic
\* holds "a" and "b" (the first run stored " a" and "b" from f2 while f1
\* failed); f1 returned " a" twice, f2 returned "b" and " a" again; exactly
\* one row, " a", was accepted.
C3_Witness ==
    /\ runNo = 2 /\ pc = "feed" /\ ti = 1 /\ si = 3
    /\ LoadedLedger = {<<"a">>, <<"b">>}
    /\ feed["f1"] = << [id |-> <<" ", "a">>, title |-> <<"m">>],
                       [id |-> <<" ", "a">>, title |-> <<"m">>] >>
    /\ feed["f2"] = << [id |-> <<"b">>, title |-> <<" ", "b">>],
                       [id |-> <<" ", "a">>, title |-> <<"m">>] >>
    /\ Len(topic_new_rows) = 1
    /\ failed = {}


RECURSIVE SumCompound(_)
SumCompound(rows) ==
    IF rows = <<>> THEN 0 ELSE Head(rows).compound + SumCompound(Tail(rows))

\* avg is the arithmetic mean of the rows' compound scores, 0.0 for none.
IsMeanOf(avg, rows) ==
    IF rows = <<>> THEN avg = <<0, 1>>
    ELSE avg[2] > 0 /\ avg[1] * Len(rows) = avg[2] * SumCompound(rows)

\* Every data row of the worksheets and of the topic in progress has an
\* identifier and a title that are not empty, the title stripped.
C4_State ==
    /\ <<>> \notin existing_ids
    /\ \A rows \in {topic_new_rows} \cup { store[t] : t \in DOMAIN store } :
          \A i \in 1..Len(rows) :
              rows[i].kind = "data" =>
                  /\ rows[i].post_id # <<>>
                  /\ rows[i].title # <<>>
                  /\ rows[i].title = Strip(rows[i].title)

\* The rows a step adds to topic_new_rows.
NewRows == SubSeq(topic_new_rows', Len(topic_new_rows) + 1, Len(topic_new_rows'))

C4_Step ==
    ProcessFeedStep =>
        LET posts == feed[Subs[si]]
            Skipped(p) == p.id = <<>> \/ Strip(p.title) = <<>>
            last == rollup_rows'[Len(rollup_rows')]
        IN /\ IsPrefix(topic_new_rows, topic_new_rows')
           /\ \A i \in 1..Len(NewRows) :
                 \E k \in 1..Len(posts) :
                     /\ ~Skipped(posts[k])
                     /\ posts[k].id = NewRows[i].post_id
                     /\ Strip(posts[k].title) = NewRows[i].title
           /\ existing_ids' =
                 existing_ids \cup { NewRows[i].post_id : i \in 1..Len(NewRows) }
           /\ last.new_posts_added = Len(NewRows)
           /\ IsMeanOf(last.avg_compound_sentiment, NewRows)

\* C4: a post whose identifier is empty, or whose title is empty once
\* stripped, produces no row: every data row has a non-empty identifier and
\* title, and the rows a feed adds each come from a post of its response
\* that has both; the ledger grows by exactly the identifiers of the added
\* rows, and the feed's rollup counts and averages exactly the added rows.
C4_SkippedPostsLeaveNothing == [](C4_State) /\ [][C4_Step]_vars

\* Witness of C4: f1 returned a post without identifier and a post with a
\* blank title; nothing was accepted, the ledger is empty and the rollup
\* row counts 0.
C4_Witness ==
    /\ runNo = 1 /\ pc = "feed" /\ ti = 1 /\ si = 2
    /\ feed["f1"] = << [id |-> <<>>, title |-> <<"g">>],
                       [id |-> <<"a">>, title |-> <<" ">>] >>
    /\ failed = {}
    /\ topic_new_rows = <<>>
    /\ existing_ids = {}
    /\ Len(rollup_rows) = 1
    /\ rollup_rows[1].new_posts_added = 0

\* ------------------------------------------------- the scorer on its own
\* lines 221-222 and 230-242 for a title of any compound score in [-1, 1].
InitLabel ==
    /\ store = <<>>
    /\ feed = [s \in Subreddits |-> <<>>]
    /\ runNo = 0
    /\ pc = "score"
    /\ err = ""
    /\ ti = 1
    /\ si = 1
    /\ ws = <<>>
    /\ existing_ids = {}
    /\ topic_new_rows = <<>>
    /\ rollup_rows = <<>>
    /\ log = <<>>
    /\ failed = {}
    /\ prev = [outcome |-> "none", failed |-> {}]
    /\ fetchFails = 0
    /\ writeFails = 0
    /\ setup = NoSetup

ScoreTitle ==
    /\ pc = "score"
    /\ topic_new_rows = <<>>
    /\ \E compound \in (-CompoundMax)..CompoundMax :
       \E p \in { q \in Items : Accepts(q, {}) } :
          topic_new_rows' =
              <<BuildRow(p, Topic.name, Subs[si], runNo, compound)>>
    /\ UNCHANGED <<store, feed, runNo, pc, err, ti, si, ws, existing_ids,
                   rollup_rows, log, failed, prev, setup, fetchFails, writeFails>>

SpecLabel == InitLabel /\ [][ScoreTitle]_vars

\* C5: the label of every row is positive iff its compound score is at
\* least 0.05, negative iff it is at most -0.05, and neutral otherwise.
C5_LabelThresholds ==
    \A i \in 1..Len(topic_new_rows) :
        LET r == topic_new_rows[i] IN
        /\ r.compound \in (-10000)..10000
        /\ r.label \in {"positive", "negative", "neutral"}
        /\ r.label = "positive" <=> r.compound >= 500
        /\ r.label = "negative" <=> r.compound <= -500
        /\ r.label = "neutral" <=> (r.compound > -500 /\ r.compound < 500)

\* Witness of C5: a row scored exactly 0.05, labelled positive.
C5_Witness ==
    /\ pc = "score"
    /\ topic_new_rows # <<>>
    /\ topic_new_rows[1].compound = 500
    /\ topic_new_rows[1].label = "positive"

\* The run's successful fetches, in order.
OkFetches == LET Ok(e) == e.op = "fetch" /\ e.ok IN SelectSeq(log, Ok)

\* The rows the run accepted from a (topic, subreddit) pair: among the rows
\* of the topic in progress, or in the topic's worksheet once committed.
AcceptedOfPair(topic_name, sub) ==
    IF pc = "feed" /\ topic_name = Topic.name
    THEN RowsOfPair(topic_new_rows, topic_name, sub)
    ELSE RowsOfPair(Sheet(safe_sheet_title(topic_name)), topic_name, sub)

\* C6: there is one rollup row per processed feed, in order; its count is
\* the number of rows accepted from the feed in this run and its average is
\* their arithmetic mean, 0 and 0.0 when none was accepted.
C6_RollupCountsAndMeans ==
    pc \in {"feed", "topic", "done"} =>
        /\ Len(rollup_rows) = Len(OkFetches)
        /\ \A k \in 1..Len(rollup_rows) :
              LET r == rollup_rows[k]
                  accepted == AcceptedOfPair(r.topic, r.subreddit)
              IN /\ r.topic = OkFetches[k].topic
                 /\ r.subreddit = OkFetches[k].sub
                 /\ r.new_posts_added = Len(accepted)
                 /\ IsMeanOf(r.avg_compound_sentiment, accepted)

\* Witness of C6: a completed run with a rollup row of two rows averaging
\* 0.04995 and a rollup row of no row averaging 0.0.
C6_Witness ==
    /\ pc = "done"
    /\ \E k \in 1..Len(rollup_rows) :
          /\ rollup_rows[k].new_posts_added = 2
          /\ rollup_rows[k].avg_compound_sentiment = <<999, 2>>
    /\ \E k \in 1..Len(rollup_rows) :
          /\ rollup_rows[k].new_posts_added = 0
          /\ rollup_rows[k].avg_compound_sentiment = <<0, 1>>


\* The posts returned so far to the topic in progress by its fetches that
\* succeeded, in declared order, each with its subreddit.
RECURSIVE CandidatesUpTo(_)
CandidatesUpTo(s) ==
    IF s = 0 THEN <<>>
    ELSE CandidatesUpTo(s - 1) \o
         (IF <<ti, s>> \in failed THEN <<>>
          ELSE [k \in 1..Len(feed[Subs[s]]) |->
                   [sub |-> Subs[s], post |-> feed[Subs[s]][k]]])

\* Of those, the ones to accept: identifier and stripped title not empty,
\* identifier not in the ledger as loaded, and no earlier such post with
\* the same identifier.
ExpectedAccepted ==
    LET c == CandidatesUpTo(si - 1)
        Valid(k) == /\ c[k].post.id # <<>>
                    /\ Strip(c[k].post.title) # <<>>
                    /\ c[k].post.id \notin LoadedLedger
        First(k) == /\ Valid(k)
                    /\ \A j \in 1..(k - 1) :
                          Valid(j) => c[j].post.id # c[k].post.id
        idx == { k \in 1..Len(c) : First(k) }
        Rank(k) == Cardinality({ j \in idx : j <= k })
    IN [i \in 1..Cardinality(idx) |->
           c[CHOOSE k \in idx : Rank(k) = i]]

C7_State ==
    pc = "feed" =>
        /\ Len(topic_new_rows) = Len(ExpectedAccepted)
        /\ \A i \in 1..Len(topic_new_rows) :
              /\ topic_new_rows[i].post_id = ExpectedAccepted[i].post.id
              /\ topic_new_rows[i].subreddit = ExpectedAccepted[i].sub
              /\ topic_new_rows[i].title = Strip(ExpectedAccepted[i].post.title)

\* The requests a step adds to the log.
NewCalls == SubSeq(log', Len(log) + 1, Len(log'))

\* A step that ends a topic with every append_rows call succeeding.
CommitStep == pc = "feed" /\ pc' = "topic"

C7_Step ==
    CommitStep =>
        /\ \A i \in 1..Len(NewCalls) :
              /\ NewCalls[i].op = "append" /\ NewCalls[i].ok
              /\ NewCalls[i].ws = ws
              /\ Len(NewCalls[i].rows) \in 1..chunk_size
        /\ AppendedRows(NewCalls) = topic_new_rows
        /\ store'[ws] = store[ws] \o topic_new_rows
        /\ topic_new_rows = <<>> => NewCalls = <<>>

\* C7: the rows accepted for a topic are, in order, the posts to accept of
\* its feeds in declared order and, within a feed, in response order; the
\* commit issues batches of 1 to chunk_size rows whose concatenation is
\* that sequence, which becomes the tail of the worksheet; a topic without
\* accepted rows issues no write.
C7_CommitOrder == [](C7_State) /\ [][C7_Step]_vars

\* Witness of C7: the first topic has just committed three rows, from both
\* feeds, in a batch of two and a batch of one.
C7_Witness ==
    /\ pc = "topic" /\ ti = 2
    /\ Len(topic_new_rows) = 3
    /\ topic_new_rows[1].subreddit = "f1"
    /\ topic_new_rows[3].subreddit = "f2"
    /\ Len(log) >= 2
    /\ log[Len(log) - 1].op = "append" /\ Len(log[Len(log) - 1].rows) = 2
    /\ log[Len(log)].op = "append" /\ Len(log[Len(log)].rows) = 1
    /\ IsSuffix(topic_new_rows, Sheet(ws))

\* The rows the run's successful append calls wrote to a worksheet.
AppendedTo(title) ==
    LET Mine(e) == e.op = "append" /\ e.ws = title IN
    AppendedRows(SelectSeq(log, Mine))

C8_State ==
    /\ \A i \in 1..Len(log) :
          (log[i].op = "append" /\ ~log[i].ok)
              => i = Len(log) /\ pc = "crashed" /\ err = "append_rows"
    /\ \A title \in DOMAIN store : IsSuffix(AppendedTo(title), store[title])

C8_Step ==
    /\ \A title \in DOMAIN store :
          title \in DOMAIN store' /\ IsPrefix(store[title], store'[title])
    /\ pc = "crashed" => runNo' = runNo + 1

\* C8: a failed append_rows call is the last request of its run, which has
\* crashed; the rows of the run's successful calls are the tail of their
\* worksheets; no step removes or changes a row of the store; and from a
\* crashed run the only step is the start of a new run.
C8_WriteFailureIsFatal == [](C8_State) /\ [][C8_Step]_vars

\* Witness of C8: the second batch of the first topic failed after the
\* first batch was written.
C8_Witness ==
    /\ pc = "crashed" /\ err = "append_rows" /\ ti = 1
    /\ Len(log) >= 2
    /\ log[Len(log) - 1].op = "append" /\ log[Len(log) - 1].ok
    /\ ~log[Len(log)].ok
    /\ Len(RunDataRows(ws)) = 2

\* The rollup rows of the run in the rollup worksheet for a declared place.
RollupsOf(slot) ==
    LET Mine(r) == /\ r.topic = Topics[slot[1]].name
                   /\ r.subreddit = Topics[slot[1]].subreddits[slot[2]]
    IN SelectSeq(RunRollupRows, Mine)

\* C10 as claimed: a completed run has committed exactly one rollup row for
\* every declared (topic, subreddit) pair.
C10_OneRollupPerDeclaredPair ==
    pc = "done" => \A slot \in Slots : Len(RollupsOf(slot)) = 1

C10_State ==
    pc = "done" =>
        /\ \A slot \in Slots :
              Len(RollupsOf(slot)) = IF slot \in failed THEN 0 ELSE 1
        /\ RunRollupRows = rollup_rows

C10_Step ==
    /\ runNo' = runNo => IsPrefix(rollup_rows, rollup_rows')
    /\ RollupTitle \in DOMAIN store =>
          /\ RollupTitle \in DOMAIN store'
          /\ IsPrefix(store[RollupTitle], store'[RollupTitle])

\* C10 amended: a completed run has committed exactly one rollup row for
\* every declared pair whose fetch succeeded and none for a pair whose
\* fetch failed; the committed rows are the rows as created, and a rollup
\* row, in memory or in the worksheet, is never changed.
C10_OneRollupPerFetchedPair == [](C10_State) /\ [][C10_Step]_vars

\* Witness of C10: a completed run in which the second feed of the first
\* topic failed and the two other pairs have their rollup rows.
C10_Witness ==
    /\ pc = "done"
    /\ failed = {<<1, 2>>}
    /\ Len(RunRollupRows) = 2
    /\ Len(RollupsOf(<<1, 1>>)) = 1
    /\ Len(RollupsOf(<<3, 1>>)) = 1

\* No two data rows of a worksheet carry the same identifier.
UniqueIds(rows) ==
    \A i, j \in 1..Len(rows) :
        (i # j /\ rows[i].kind = "data" /\ rows[j].kind = "data")
            => rows[i].post_id # rows[j].post_id

\* C11: over any sequence of runs from an empty spreadsheet, no topic
\* worksheet holds two data rows with the same identifier, and every step
\* leaves each worksheet a prefix of what it becomes (rows are only
\* appended, never changed or removed).
C11_StoreUniqueness ==
    /\ [](\A title \in TopicSections : UniqueIds(Sheet(title)))
    /\ [][\A title \in DOMAIN store :
             title \in DOMAIN store' /\ IsPrefix(store[title], store'[title])]_vars

\* The positions in the log of the run's writes to the rollup worksheet.
RollupWrites == { i \in 1..Len(log) : log[i].op = "append" /\ log[i].ws = RollupTitle }

\* No rollup row of the run is in the store while a topic remains.
C12_NoneEarly == RunRollupRows # <<>> => (ti > Len(Topics) /\ pc \in {"done", "crashed"})

\* C12 as claimed: a completed run that created a rollup row has written
\* them all by exactly one store write, the last request of the run, and no
\* rollup row is in the store before every topic is processed.
C12_SingleRollupWrite ==
    /\ C12_NoneEarly
    /\ (pc = "done" /\ rollup_rows # <<>>) =>
          /\ RollupWrites = {Len(log)}
          /\ log[Len(log)].rows = rollup_rows

C12_State ==
    /\ C12_NoneEarly
    /\ pc = "done" =>
          /\ RollupWrites = (Len(log) - NumChunks(rollup_rows) + 1)..Len(log)
          /\ \A i \in RollupWrites :
                /\ log[i].ok
                /\ Len(log[i].rows) \in 1..chunk_size
                /\ i < Len(log) => Len(log[i].rows) = chunk_size
          /\ AppendedTo(RollupTitle) = rollup_rows
          /\ RunRollupRows = rollup_rows
          /\ rollup_rows = <<>> => RollupWrites = {}

\* A step that adds a row to the rollup worksheet (the header apart) is
\* taken after the last topic.
C12_Step ==
    (runNo' = runNo /\ Sheet(RollupTitle)' # Sheet(RollupTitle))
        => (pc = "topic" /\ ti > Len(Topics))

\* C12 amended: a completed run has written all its rollup rows by the
\* batches of one append_rows call, which are the last requests of the run
\* (so they follow every topic's commit): consecutive batches of chunk_size
\* rows, the last one of 1 to chunk_size, whose concatenation is the rollup
\* rows in creation order; no write when there is no rollup row; and no
\* rollup row is in the store before every topic is processed.
C12_RollupWrittenLastInBatches == [](C12_State) /\ [][C12_Step]_vars

\* Witness of C12: a completed run whose three rollup rows went out in a
\* batch of two and a batch of one, after the last topic committed a row.
C12_Witness ==
    /\ pc = "done"
    /\ Len(rollup_rows) = 3
    /\ RollupWrites = {Len(log) - 1, Len(log)}
    /\ Len(log[Len(log) - 1].rows) = 2
    /\ Len(log[Len(log)].rows) = 1
    /\ log[Len(log) - 2].op = "append"
    /\ log[Len(log) - 2].ws = safe_sheet_title(TopicC)

\* ------------------------------------------------- the setup on its own
\* main(), lines 128-152, over every combination of the two required
\* variables, topics.yml and the connection, with the runs that follow.
\* The feeds are kept to an empty response or one post.
InitSetup ==
    /\ Init
    /\ \A s \in Subreddits :
          feed[s] \in {<<>>, <<[id |-> <<"a">>, title |-> <<"g">>]>>}

SetupFailAny == \E in \in SetupInputs : SetupFailWith(in)

NextSetup == Next \/ SetupFailAny

SpecSetup == InitSetup /\ [][NextSetup]_vars

\* A variable that os.getenv does not find, or whose text is all spaces.
Blank(v) == ~v.set \/ \A i \in 1..Len(v.val) : v.val[i] = " "

BadSetup(in) ==
    \/ Blank(in.sheet_id)
    \/ Blank(in.service_json)
    \/ in.topics_file \in {"missing", "no_topics"}
    \/ ~in.connect_ok

C13_State ==
    (runNo >= 1 /\ BadSetup(setup)) =>
        /\ pc = "crashed"
        /\ err \notin {"", "smoke test", "append_rows"}
        /\ log = <<>>
        /\ topic_new_rows = <<>> /\ rollup_rows = <<>>
        /\ \A title \in DOMAIN store :
              \A i \in 1..Len(store[title]) :
                  store[title][i].kind \in {"data", "rollup", "smoke"}
                      => store[title][i].run # runNo

C13_Step ==
    (runNo' = runNo + 1 /\ BadSetup(setup')) => (store' = store /\ pc' = "crashed")

\* C13: a run that finds a required variable unset or blank, topics.yml
\* missing or without topics, or the connection failing has crashed with
\* an error without a request (no fetch, no write), without an accepted
\* row or a rollup row, and with no row of its own in the store; the step
\* that starts it leaves the store as it was.
C13_SetupErrorsFatal == [](C13_State) /\ [][C13_Step]_vars

\* Witness of C13: after a completed run that stored a row, a second run
\* found GOOGLE_SHEET_ID set to a space and the connection failing, and
\* crashed on the variable.
C13_Witness ==
    /\ runNo = 2 /\ pc = "crashed" /\ prev.outcome = "done"
    /\ setup.sheet_id = [set |-> TRUE, val |-> <<" ">>]
    /\ ~setup.connect_ok
    /\ err = "env GOOGLE_SHEET_ID"
    /\ \E title \in TopicSections : Len(Sheet(title)) >= 2

\* ------------------------------------- runs over an existing spreadsheet
\* The spreadsheet the first run finds may already hold the first topic's
\* worksheet and the rollup worksheet: empty, with a blank row 1 (alone or
\* above a row), with a header of its own (alone or above a row), or with
\* a row in row 1.
BlankRow == [kind |-> "blank"]
OldHeader == HeaderRow(<<"old">>)
OldRow ==
    [kind |-> "data", post_id |-> <<"a">>, run |-> 0, topic |-> TopicAB,
     subreddit |-> "f1", title |-> <<"g">>, compound |-> 500,
     label |-> "positive"]

PreContents ==
    { <<>>, <<BlankRow>>, <<BlankRow, OldRow>>, <<OldHeader>>,
      <<OldHeader, OldRow>>, <<OldRow>> }

PreTitles == {safe_sheet_title(TopicAB), RollupTitle}

PreStores == UNION { [D -> PreContents] : D \in SUBSET PreTitles }

InitEnsure ==
    /\ store \in PreStores
    /\ feed \in [Subreddits -> {<<>>, <<[id |-> <<"b">>, title |-> <<"g">>]>>}]
    /\ runNo = 0
    /\ pc = "idle"
    /\ err = ""
    /\ ti = 1
    /\ si = 1
    /\ ws = <<>>
    /\ existing_ids = {}
    /\ topic_new_rows = <<>>
    /\ rollup_rows = <<>>
    /\ log = <<>>
    /\ failed = {}
    /\ prev = [outcome |-> "none", failed |-> {}]
    /\ fetchFails = 0
    /\ writeFails = 0
    /\ setup = NoSetup

SpecEnsure == InitEnsure /\ [][Next]_vars

\* Row 1 of a worksheet; a worksheet that is missing or has no row reads
\* as a blank row 1.
RowOne(sh, title) ==
    IF title \in DOMAIN sh /\ sh[title] # <<>> THEN sh[title][1] ELSE BlankRow

\* The fixed header of a section.
FixedHeader(title) ==
    IF title = RollupTitle THEN HeaderRow(RollupHeaders)
    ELSE IF title = SmokeTitle THEN HeaderRow(SmokeHeaders)
    ELSE HeaderRow(TopicHeaders)

\* The step ensures the section: the start of a run does so for the smoke
\* and rollup worksheets, the start of a topic for the topic's worksheet.
Ensures(title) ==
    \/ /\ runNo' = runNo + 1 /\ err' \in {"", "smoke test"}
       /\ title = SmokeTitle
    \/ /\ runNo' = runNo + 1 /\ err' = ""
       /\ title = RollupTitle
    \/ /\ pc = "topic" /\ pc' = "feed"
       /\ title = safe_sheet_title(Topic.name)

C14_Step ==
    /\ \A title \in DOMAIN store :
          /\ title \in DOMAIN store'
          /\ Len(store'[title]) >= Len(store[title])
          /\ \A i \in 2..Len(store[title]) : store'[title][i] = store[title][i]
    /\ \A title \in DOMAIN store' :
          LET before == RowOne(store, title)
              after == RowOne(store', title)
          IN IF before.kind # "blank" THEN after = before
             ELSE IF Ensures(title) THEN after = FixedHeader(title)
             ELSE after = before

\* C14: a step that ensures a section puts the section's fixed header into
\* row 1 when row 1 is missing or blank; in every other case row 1 stays
\* as it is, so a header once written (or found) is never replaced; and no
\* step changes or removes a row below row 1.
C14_HeadersWrittenOnce == [][C14_Step]_vars

\* Witness of C14: a completed second run over a spreadsheet in which the
\* first topic's worksheet had a blank row 1 above a row, and the rollup
\* worksheet had a row in row 1: the first now has the topic header above
\* that row, the second still has its row in row 1.
C14_Witness ==
    /\ runNo = 2 /\ pc = "done"
    /\ Len(Sheet(safe_sheet_title(TopicAB))) >= 2
    /\ Sheet(safe_sheet_title(TopicAB))[1] = HeaderRow(TopicHeaders)
    /\ Sheet(safe_sheet_title(TopicAB))[2] = OldRow
    /\ Sheet(RollupTitle) # <<>>
    /\ Sheet(RollupTitle)[1] = OldRow

\* The stripped, non-blank identifiers of the rows of the topic's worksheet
\* at the given positions.
IdsAt(positions) ==
    { Strip(Col1(Sheet(ws)[i])) :
        i \in { j \in positions : Strip(Col1(Sheet(ws)[j])) # <<>> } }

\* C15: when a topic's ledger has just been loaded (no feed of the topic
\* processed yet), with n the number of rows below the header: if n is at
\* most max_rows the ledger is exactly the non-blank identifiers of all of
\* them; if n exceeds max_rows the ledger holds the identifiers of the
\* max_rows most recently appended rows; and in either case it holds the
\* identifier of every row the preceding run appended, when these are at
\* most max_rows.
C15_ScanDropsOnlyOldest ==
    (pc = "feed" /\ si = 1) =>
        LET last == Len(Sheet(ws))
            n == last - 1
            recent == { i \in 2..last : Sheet(ws)[i].run = runNo - 1 }
        IN /\ n <= max_rows => existing_ids = IdsAt(2..last)
           /\ n > max_rows => IdsAt((last - max_rows + 1)..last) \subseteq existing_ids
           /\ Cardinality(recent) <= max_rows => IdsAt(recent) \subseteq existing_ids

\* The new-row counts a run's rollup rows in the rollup worksheet report
\* for a (topic, subreddit) pair, summed.
RECURSIVE SumAdded(_)
SumAdded(rows) ==
    IF rows = <<>> THEN 0
    ELSE Head(rows).new_posts_added + SumAdded(Tail(rows))

Reported(run, topic_name, sub) ==
    LET Mine(r) == /\ r.kind = "rollup" /\ r.run = run
                   /\ r.topic = topic_name /\ r.subreddit = sub
    IN SumAdded(SelectSeq(Sheet(RollupTitle), Mine))

\* The data rows of a run in the store for a (topic, subreddit) pair,
\* counted over every worksheet.
Persisted(run, topic_name, sub) ==
    Cardinality(
        { <<title, i>> \in UNION { {title} \X (1..Len(store[title])) :
                                     title \in DOMAIN store } :
            LET r == store[title][i]
            IN /\ r.kind = "data" /\ r.run = run
               /\ r.topic = topic_name /\ r.subreddit = sub })

DeclaredPairs == { DeclaredFeeds[k] : k \in 1..Len(DeclaredFeeds) }

\* C16 as claimed: in every state, for every run and every pair, the
\* reported count equals the number of rows the run appended.
C16_RollupEqualsPersisted ==
    \A run \in 1..runNo : \A pair \in DeclaredPairs :
        Reported(run, pair[1], pair[2]) = Persisted(run, pair[1], pair[2])

\* C16 amended: in every state, for every run and every pair, the reported
\* count is at most the number of rows the run appended; the two are equal
\* for the current run once it has completed and for the preceding run
\* when it completed.
C16_RollupNeverOverReports ==
    \A run \in 1..runNo : \A pair \in DeclaredPairs :
        /\ Reported(run, pair[1], pair[2]) <= Persisted(run, pair[1], pair[2])
        /\ ((run = runNo /\ pc = "done")
              \/ (run = runNo - 1 /\ prev.outcome = "done"))
            => Reported(run, pair[1], pair[2]) = Persisted(run, pair[1], pair[2])

\* Witness of C16: the first run stored two rows of (A/B, f1) and crashed
\* before its rollup write, so nothing is reported for it; the second run
\* completed, storing and reporting one row of (A/B, f2).
C16_Witness ==
    /\ runNo = 2 /\ pc = "done" /\ prev.outcome = "crashed"
    /\ Persisted(1, TopicAB, "f1") = 2 /\ Reported(1, TopicAB, "f1") = 0
    /\ Persisted(2, TopicAB, "f2") = 1 /\ Reported(2, TopicAB, "f2") = 1

\* The identifiers, stripped, of the rows a worksheet held before the
\* current run.
PriorIds(title) ==
    { Strip(Sheet(title)[i].post_id) :
        i \in { j \in 1..Len(Sheet(title)) :
                  Sheet(title)[j].kind = "data" /\ Sheet(title)[j].run < runNo } }

\* The rows of the current run in a worksheet that carry an identifier.
RunRowsWithId(title, id) ==
    { i \in 1..Len(Sheet(title)) :
        /\ Sheet(title)[i].kind = "data" /\ Sheet(title)[i].run = runNo
        /\ Sheet(title)[i].post_id = id }

\* In a completed run, a post with an identifier and a title, returned by
\* a feed of a topic and whose identifier no earlier row of the topic's
\* own worksheet carries, has exactly one row of the run in that
\* worksheet, whatever the other topics accepted.
C17_State ==
    pc = "done" =>
        \A slot \in Slots \ failed :
            LET title == safe_sheet_title(Topics[slot[1]].name)
                posts == feed[Topics[slot[1]].subreddits[slot[2]]]
            IN \A k \in 1..Len(posts) :
                  (/\ posts[k].id # <<>>
                   /\ Strip(posts[k].title) # <<>>
                   /\ posts[k].id \notin PriorIds(title))
                      => Cardinality(RunRowsWithId(title, posts[k].id)) = 1

\* The step that starts a topic loads a ledger whose identifiers all come
\* from rows of the topic's own worksheet.
C17_Step ==
    (pc = "topic" /\ pc' = "feed") =>
        \A id \in existing_ids' :
            \E i \in 1..Len(store'[ws']) :
                /\ store'[ws'][i].kind = "data"
                /\ Strip(store'[ws'][i].post_id) = id

\* C17: the ledger a topic starts with holds only identifiers of rows of
\* the topic's own worksheet, nothing of the ledger of the topic before;
\* and in a completed run every acceptable post of a topic's feeds whose
\* identifier is new to the topic's own worksheet is stored there exactly
\* once, also when another topic, stored in another worksheet, accepted
\* the same identifier.
C17_DedupScopedToSection == [](C17_State) /\ [][C17_Step]_vars

\* Witness of C17: f1, a feed of the first and of the third topic,
\* returned identifier "a"; the completed first run stored it once in each
\* of the two worksheets.
C17_Witness ==
    /\ runNo = 1 /\ pc = "done" /\ failed = {}
    /\ feed["f1"] = <<[id |-> <<"a">>, title |-> <<"g">>]>>
    /\ Cardinality(RunRowsWithId(safe_sheet_title(TopicAB), <<"a">>)) = 1
    /\ Cardinality(RunRowsWithId(safe_sheet_title(TopicC), <<"a">>)) = 1
    /\ safe_sheet_title(TopicAB) # safe_sheet_title(TopicC)

====
